---- MODULE Spec2Model ----
(***************************************************************************)
(* Model of bgit: the status classification and the commit flow, in the    *)
(* two implementations the repository holds.                               *)
(*   status1 / commit1 : the single-file commands (collectStatus,          *)
(*                       basicHeuristicMessage, generateAICommitMessage)   *)
(*   status2 / commit2 : the service-based commands (GitCLI.StagedFiles    *)
(*                       ..., GenerateCommitMessage, config.Providers)     *)
(* Strings are sequences of one-character strings, ordered by byte value.  *)
(***************************************************************************)
EXTENDS Integers, Sequences, FiniteSets, TLC

VARIABLES
    cmd,        \* which command this invocation runs
    pc,         \* position of the command's Run function
    status,     \* the backend's git.Status: path -> [Staging, Worktree]
    lists,      \* the six classified path slices
    stdout,     \* lines printed to standard output
    stderr,     \* lines printed to standard error
    exitCode,   \* process outcome: 0 unless os.Exit(1) was called
    flags,      \* the command-line flags of a commit invocation
    stagedPaths,\* commit: the staged path slice
    message,    \* commit: the message variable of Run
    gen,        \* commit2: provider loop state [idx, generatedMessage, err, diff]
    env,        \* the environment variables read so far: name -> value
    responses,  \* the provider responses received so far: provider -> response
    events,     \* calls made to the backend, environment and providers, in order
    commits,    \* the repository's commits created by this invocation
    author      \* commit1: the resolved author signature

vars == <<cmd, pc, status, lists, stdout, stderr, exitCode, flags, stagedPaths,
          message, gen, env, responses, events, commits, author>>

commitVars == <<flags, stagedPaths, message, gen, env, responses, events, commits, author>>

----------------------------------------------------------------------------
(* Bounds *)

MaxStatusEntries == 2

----------------------------------------------------------------------------
(* Strings *)

Byte(c) ==
    CASE c = "\n" -> 10
      [] c = " "  -> 32
      [] c = "."  -> 46
      [] c = "<"  -> 60
      [] c = ">"  -> 62
      [] c = "N"  -> 78
      [] c = "a"  -> 97
      [] c = "b"  -> 98
      [] c = "c"  -> 99
      [] c = "g"  -> 103
      [] c = "o"  -> 111
      [] c = "p"  -> 112
      [] c = "y"  -> 121
      [] OTHER    -> 63

\* Go's string comparison: bytewise lexicographic.
StrLess(a, b) ==
    \E i \in 1..(Len(a) + 1) :
        /\ i <= Len(b)
        /\ \A j \in 1..(i - 1) : a[j] = b[j]
        /\ \/ i = Len(a) + 1
           \/ Byte(a[i]) < Byte(b[i])

RECURSIVE InsertSorted(_, _)
InsertSorted(x, s) ==
    IF s = <<>> THEN <<x>>
    ELSE IF StrLess(Head(s), x) THEN <<Head(s)>> \o InsertSorted(x, Tail(s))
    ELSE <<x>> \o s

\* sort.Strings: ascending order, every element kept.
RECURSIVE SortStrings(_)
SortStrings(s) ==
    IF s = <<>> THEN <<>> ELSE InsertSorted(Head(s), SortStrings(Tail(s)))

\* The orders in which a Go map with key set S can be ranged over.
RECURSIVE Orders(_)
Orders(S) ==
    IF S = {} THEN {<<>>}
    ELSE UNION {{<<x>> \o o : o \in Orders(S \ {x})} : x \in S}

Range(s) == {s[i] : i \in 1..Len(s)}

----------------------------------------------------------------------------
(* The backend's status listing *)

StatusCodes == {"Unmodified", "Untracked", "Modified", "Added", "Deleted", "Renamed"}

PathPool == { <<"a", ".", "g", "o">>, <<"b", ".", "g", "o">>, <<"c", ".", "p", "y">> }

FileStatus == [Staging : StatusCodes, Worktree : StatusCodes]

EmptyLists ==
    [staged |-> <<>>, modified |-> <<>>, added |-> <<>>,
     deleted |-> <<>>, renamed |-> <<>>, untracked |-> <<>>]

ListNames == {"staged", "modified", "added", "deleted", "renamed", "untracked"}

Append1(acc, name, path) == [acc EXCEPT ![name] = Append(@, path)]

----------------------------------------------------------------------------
(* status1: GitCLI.collectStatus *)

\* variant: a default case that files every other staging state under staged
StagingSwitchDefault(acc, path, code) ==
    CASE code = "Modified"  -> Append1(acc, "staged", path)
      [] code = "Added"     -> Append1(acc, "added", path)
      [] code = "Deleted"   -> Append1(acc, "deleted", path)
      [] code = "Renamed"   -> Append1(acc, "renamed", path)
      [] code = "Untracked" -> Append1(acc, "untracked", path)
      [] OTHER              -> Append1(acc, "staged", path)

\* switch s.Staging
StagingSwitch(acc, path, code) ==
    CASE code = "Modified"  -> Append1(acc, "staged", path)
      [] code = "Added"     -> Append1(acc, "added", path)
      [] code = "Deleted"   -> Append1(acc, "deleted", path)
      [] code = "Renamed"   -> Append1(acc, "renamed", path)
      [] code = "Untracked" -> Append1(acc, "untracked", path)
      [] OTHER              -> acc

\* variant: the worktree switch as an "else" of the staging switch, skipped
\* for a path the staging switch has already filed
WorktreeSwitchExclusive(acc, path, code) ==
    IF \E n \in ListNames : path \in Range(acc[n]) THEN acc
    ELSE CASE code = "Modified"  -> Append1(acc, "modified", path)
           [] code = "Added"     -> Append1(acc, "untracked", path)
           [] code = "Deleted"   -> Append1(acc, "deleted", path)
           [] code = "Renamed"   -> Append1(acc, "renamed", path)
           [] code = "Untracked" -> Append1(acc, "untracked", path)
           [] OTHER              -> acc

\* switch s.Worktree
WorktreeSwitch(acc, path, code) ==
    CASE code = "Modified"  -> Append1(acc, "modified", path)
      [] code = "Added"     -> Append1(acc, "untracked", path)
      [] code = "Deleted"   -> Append1(acc, "deleted", path)
      [] code = "Renamed"   -> Append1(acc, "renamed", path)
      [] code = "Untracked" -> Append1(acc, "untracked", path)
      [] OTHER              -> acc

\* the body of "for path, s := range status", ranged in the given order
RECURSIVE collectLoop(_, _, _)
collectLoop(st, order, acc) ==
    IF order = <<>> THEN acc
    ELSE LET path == Head(order)
             a1 == StagingSwitch(acc, path, st[path].Staging)
             a2 == WorktreeSwitch(a1, path, st[path].Worktree)
         IN collectLoop(st, Tail(order), a2)

\* "Keep output stable": sort.Strings over each of the six slices
sortAll(acc) == [n \in ListNames |-> SortStrings(acc[n])]

collectStatus(st, order) == sortAll(collectLoop(st, order, EmptyLists))

----------------------------------------------------------------------------
(* status2: GitCLI.StagedFiles ... UntrackedFiles *)

\* "for path, s := range status { if <test> { append } }", ranged in the
\* given order
StagedFiles(st, order)    == SelectSeq(order, LAMBDA p : st[p].Staging # "Unmodified")
ModifiedFiles(st, order)  == SelectSeq(order, LAMBDA p : st[p].Worktree # "Unmodified")
AddedFiles(st, order)     == SelectSeq(order, LAMBDA p : st[p].Worktree = "Added")
DeletedFiles(st, order)   == SelectSeq(order, LAMBDA p : st[p].Worktree = "Deleted")
RenamedFiles(st, order)   == SelectSeq(order, LAMBDA p : st[p].Worktree = "Renamed")
UntrackedFiles(st, order) == SelectSeq(order, LAMBDA p : st[p].Worktree = "Untracked")

----------------------------------------------------------------------------
(* Rendering *)

\* formatSection: nothing for an empty list, else a title line and bullets
formatSection(title, items) ==
    IF Len(items) = 0 THEN <<>>
    ELSE <<<<"section", title, Len(items)>>>>
         \o [i \in 1..Len(items) |-> <<"bullet", items[i]>>]

Sections(l) ==
    formatSection("Staged (index)", l.staged)
    \o formatSection("Added (staged new files)", l.added)
    \o formatSection("Modified (worktree)", l.modified)
    \o formatSection("Deleted", l.deleted)
    \o formatSection("Renamed", l.renamed)
    \o formatSection("Untracked", l.untracked)

TotalLen(l) ==
    Len(l.staged) + Len(l.modified) + Len(l.added)
    + Len(l.deleted) + Len(l.renamed) + Len(l.untracked)

Branches == {"", "main"}

\* "if out.Len() == 0": the guard for an empty report
cleanGuard(out) == IF Len(out) = 0 THEN <<"Clean working tree">> ELSE out

\* variant: the report is printed even when all six slices are empty
statusOutputAlways(l, out) == out

\* what the status command prints: the single line when all six slices are
\* empty, else the report built in out
statusOutput(l, out) ==
    IF TotalLen(l) = 0 THEN <<"Working tree clean">> ELSE out

----------------------------------------------------------------------------
(* Text helpers of the commit flow *)

IsSpace(c) == c \in {" ", "\n", "\t", "\r"}

RECURSIVE TrimLeft(_)
TrimLeft(s) == IF s # <<>> /\ IsSpace(Head(s)) THEN TrimLeft(Tail(s)) ELSE s

RECURSIVE TrimRight(_)
TrimRight(s) ==
    IF s # <<>> /\ IsSpace(s[Len(s)]) THEN TrimRight(SubSeq(s, 1, Len(s) - 1)) ELSE s

\* variant: only leading white space is removed
TrimSpaceLeftOnly(s) == TrimLeft(s)

\* strings.TrimSpace
TrimSpace(s) == TrimRight(TrimLeft(s))

\* positions of character c in s
IndexesOf(s, c) == {i \in 1..Len(s) : s[i] = c}

Max(S) == CHOOSE x \in S : \A y \in S : y <= x
Min(S) == CHOOSE x \in S : \A y \in S : x <= y

\* firstLine: the text before the first newline
firstLine(s) ==
    IF IndexesOf(s, "\n") # {} THEN SubSeq(s, 1, Min(IndexesOf(s, "\n")) - 1) ELSE s

Digit(d) ==
    CASE d = 0 -> "0" [] d = 1 -> "1" [] d = 2 -> "2" [] d = 3 -> "3" [] d = 4 -> "4"
      [] d = 5 -> "5" [] d = 6 -> "6" [] d = 7 -> "7" [] d = 8 -> "8" [] d = 9 -> "9"

\* fmt.Sprintf("%d", n) for n >= 0
RECURSIVE Itoa(_)
Itoa(n) == IF n < 10 THEN <<Digit(n)>> ELSE Itoa(n \div 10) \o <<Digit(n % 10)>>

\* strings.Join
RECURSIVE Join(_, _)
Join(parts, sep) ==
    IF parts = <<>> THEN <<>>
    ELSE IF Len(parts) = 1 THEN parts[1]
    ELSE parts[1] \o sep \o Join(Tail(parts), sep)

----------------------------------------------------------------------------
(* commit1: basicHeuristicMessage *)

\* the extension cut at the first "." instead of the last
ExtOfFirstDot(p) ==
    IF IndexesOf(p, ".") = {} \/ Max(IndexesOf(p, ".")) = Len(p) THEN <<>>
    ELSE SubSeq(p, Min(IndexesOf(p, ".")) + 1, Len(p))

\* the extension counted for a path: the text after the last ".", when there
\* is a "." and it is not the final character; <<>> when the path counts for
\* no extension
ExtOf(p) ==
    IF IndexesOf(p, ".") = {} \/ Max(IndexesOf(p, ".")) = Len(p) THEN <<>>
    ELSE SubSeq(p, Max(IndexesOf(p, ".")) + 1, Len(p))

\* the keys of the exts map
ExtKeys(paths) == {ExtOf(paths[i]) : i \in 1..Len(paths)} \ {<<>>}

\* exts[ext]
ExtCount(paths, ext) == Cardinality({i \in 1..Len(paths) : ExtOf(paths[i]) = ext})

\* one entry of top: "<count> <ext> file" or "<count> <ext> files"
ExtEntry(paths, ext) ==
    Itoa(ExtCount(paths, ext)) \o <<" ">> \o ext
    \o (IF ExtCount(paths, ext) > 1 THEN <<" ", "f", "i", "l", "e", "s">>
        ELSE <<" ", "f", "i", "l", "e">>)

\* no message at all for an empty path list
EmptyCommitMessageBlank == <<>>

EmptyCommitMessage ==
    <<"c", "h", "o", "r", "e", ":", " ", "e", "m", "p", "t", "y", " ",
      "c", "o", "m", "m", "i", "t">>

\* extOrder is the order in which "for ext := range exts" visits the map
basicHeuristicMessage(paths, extOrder) ==
    IF Len(paths) = 0 THEN EmptyCommitMessage
    ELSE LET all == [i \in 1..Len(extOrder) |-> ExtEntry(paths, extOrder[i])]
             top == IF Len(all) > 3 THEN SubSeq(all, 1, 3) ELSE all
         IN <<"u", "p", "d", "a", "t", "e", " ">> \o Itoa(Len(paths))
            \o <<" ", "p", "a", "t", "h", "s", " ", "(">>
            \o Join(top, <<",", " ">>) \o <<")">>

----------------------------------------------------------------------------
(* Providers and their responses *)

\* config.Providers
Providers ==
    << [Name |-> "OpenAI",     EnvName |-> "OPENAI_API_KEY"],
       [Name |-> "OpenRouter", EnvName |-> "OPENROUTER_API_KEY"] >>

\* what a chat-completion request can come back with: a transport error, a
\* request that never answers, a response without choices, or a first choice
\* with some content
Contents ==
    { <<>>, <<" ">>, <<" ", "f", "i", "x", "\n">>, <<"a", "d", "d">> }

Responses ==
    {[kind |-> "error", content |-> <<>>],
     [kind |-> "hang", content |-> <<>>],
     [kind |-> "nochoices", content |-> <<>>]}
    \cup {[kind |-> "content", content |-> c] : c \in Contents}

\* the values an environment variable can have: unset, set to "", set to text
EnvValues == {[set |-> FALSE, val |-> <<>>],
              [set |-> TRUE, val |-> <<>>],
              [set |-> TRUE, val |-> <<"k">>]}

\* os.Getenv
Getenv(v) == IF v.set THEN v.val ELSE <<>>

\* variant: a response without choices or content counts as an answer
ChatCompletionLenient(resp) ==
    IF resp.kind \in {"error", "hang"} THEN [text |-> <<>>, err |-> "call failed"]
    ELSE [text |-> TrimSpace(resp.content), err |-> "nil"]

\* the result of one chat completion call: [text, err]
\* (OpenAIChatCompletion, OpenRouterChatCompletion, generateAICommitMessage)
ChatCompletion(resp) ==
    IF resp.kind # "content" THEN [text |-> <<>>, err |-> "call failed"]
    ELSE IF resp.content = <<>> THEN [text |-> <<>>, err |-> "no AI response content"]
    ELSE [text |-> TrimSpace(resp.content), err |-> "nil"]

----------------------------------------------------------------------------
(* commit1: author resolution *)

\* strings.Split(s, "<") for a single-character separator
RECURSIVE Split(_, _)
Split(s, c) ==
    IF IndexesOf(s, c) = {} THEN <<s>>
    ELSE LET i == Min(IndexesOf(s, c))
         IN <<SubSeq(s, 1, i - 1)>> \o Split(SubSeq(s, i + 1, Len(s)), c)

HasSuffix(s, c) == s # <<>> /\ s[Len(s)] = c
TrimSuffix(s, c) == IF HasSuffix(s, c) THEN SubSeq(s, 1, Len(s) - 1) ELSE s

\* the --author override: [name, email], both empty when it is not accepted
ParseAuthor(authorStr) ==
    LET parts == Split(authorStr, "<")
    IN IF authorStr # <<>> /\ Len(parts) = 2 /\ HasSuffix(parts[2], ">")
       THEN [name |-> TrimSpace(parts[1]),
             email |-> TrimSuffix(TrimSpace(parts[2]), ">")]
       ELSE [name |-> <<>>, email |-> <<>>]

\* getenvDefault
getenvDefault(v, def) == IF Getenv(v) = <<>> THEN def ELSE Getenv(v)

DefaultName == <<"b", "g", "i", "t", " ", "u", "s", "e", "r">>
DefaultEmail == <<"u", "s", "e", "r", "@", "e", "x", "a", "m", "p", "l", "e", ".", "c", "o", "m">>

ResolveAuthor(authorStr, envName, envEmail) ==
    LET o == ParseAuthor(authorStr)
    IN IF o.name = <<>> \/ o.email = <<>>
       THEN [name |-> getenvDefault(envName, DefaultName),
             email |-> getenvDefault(envEmail, DefaultEmail)]
       ELSE o

----------------------------------------------------------------------------
(* Inputs *)

\* status2 ranges over the status map six times, and the commit flows carry
\* the staged slice through every later step: their listings are drawn from
\* two paths of the pool
Status2Pool == { <<"a", ".", "g", "o">>, <<"c", ".", "p", "y">> }

MapsOver(pool, values) ==
    UNION {[D -> values] : D \in {E \in SUBSET pool : Cardinality(E) <= MaxStatusEntries}}

\* commit reads only the staging axis: staged entries have a clean worktree,
\* and an untracked file is reported as Untracked on both axes
CommitFileStatus ==
    {s \in FileStatus :
        s.Worktree = (IF s.Staging = "Untracked" THEN "Untracked" ELSE "Unmodified")}

UserMessages == { <<>>, <<"f", "i", "x">>, <<"a", "\n", "b">> }

AuthorStrs ==
    { <<>>,
      <<"N", " ", "<", "e", ">">>,
      <<"N", " ", "e">>,
      <<"<", "e", ">">>,
      <<"N", "<", "<", "e", ">">>,
      <<"N", " ", "<", "e">> }

NoFlags ==
    [message |-> <<>>, allowEmpty |-> FALSE, dryRun |-> FALSE, noAI |-> FALSE,
     authorStr |-> <<>>]

\* commit1 registers message, allow-empty, dry-run, no-ai and author
Commit1Flags ==
    [message : UserMessages, allowEmpty : BOOLEAN, dryRun : BOOLEAN, noAI : BOOLEAN,
     authorStr : AuthorStrs]

\* commit2 registers message, dry-run and no-ai only
Commit2Flags ==
    [message : UserMessages, allowEmpty : {FALSE}, dryRun : BOOLEAN, noAI : BOOLEAN,
     authorStr : {<<>>}]

NoGen == [idx |-> 1, generatedMessage |-> <<>>, diff |-> <<>>, warnings |-> <<>>]

NoAuthor == [name |-> <<>>, email |-> <<>>]

Ev(op, arg) == [op |-> op, arg |-> arg]

----------------------------------------------------------------------------
(* Init *)

Commands == {"status1", "status2", "commit1", "commit2"}

StatusCommands == {"status1", "status2"}
CommitCommands == {"commit1", "commit2"}

InitWith(commands) ==
    /\ cmd \in commands
    /\ pc = "start"
    /\ status \in (CASE cmd = "status1" -> MapsOver(PathPool, FileStatus)
                     [] cmd = "status2" -> MapsOver(Status2Pool, FileStatus)
                     [] OTHER -> MapsOver(Status2Pool, CommitFileStatus))
    /\ flags \in (CASE cmd = "commit1" -> Commit1Flags
                    [] cmd = "commit2" -> Commit2Flags
                    [] OTHER -> {NoFlags})
    /\ lists = EmptyLists
    /\ stdout = <<>>
    /\ stderr = <<>>
    /\ exitCode = 0
    /\ stagedPaths = <<>>
    /\ message = flags.message
    /\ gen = NoGen
    /\ env = <<>>
    /\ responses = <<>>
    /\ events = <<>>
    /\ commits = <<>>
    /\ author = NoAuthor

InitStatus == InitWith(StatusCommands)
InitCommit == InitWith(CommitCommands)

\* exitWithError / fmt.Fprintf(os.Stderr, ...); os.Exit(1)
Fatal(line) ==
    /\ stderr' = Append(stderr, line)
    /\ exitCode' = 1
    /\ pc' = "exit"

----------------------------------------------------------------------------
(* status1: statusCmd.Run over collectStatus *)

Status1Collect ==
    /\ cmd = "status1"
    /\ pc = "start"
    /\ \/ \* wt.Status() fails
          /\ Fatal("error: failed to compute status")
          /\ events' = Append(events, Ev("Status", "failed"))
          /\ UNCHANGED <<lists, stdout>>
       \/ \E order \in Orders(DOMAIN status) :
            /\ lists' = collectStatus(status, order)
            /\ events' = Append(events, Ev("Status", "ok"))
            /\ pc' = "render"
            /\ UNCHANGED <<stderr, exitCode, stdout>>
    /\ UNCHANGED <<cmd, status, flags, stagedPaths, message, gen, env, responses,
                   commits, author>>

Status1Render ==
    /\ cmd = "status1"
    /\ pc = "render"
    /\ \E branch \in Branches, hasCommit \in BOOLEAN :
         LET out == <<<<"On branch", branch>>>>
                    \o (IF hasCommit THEN <<<<"Latest commit">>>> ELSE <<>>)
                    \o Sections(lists)
         IN stdout' = stdout \o statusOutput(lists, cleanGuard(out))
    /\ pc' = "done"
    /\ UNCHANGED <<cmd, status, lists, stderr, exitCode>>
    /\ UNCHANGED commitVars

----------------------------------------------------------------------------
(* status2: statusCmd.Run over the six GitCLI queries *)

\* the map range orders of one query
RangeOrders == Orders(DOMAIN status)

\* one query: its own Status() call, which may fail (the caller then uses
\* an empty slice), and its own range order over the map; results are the
\* slices the query can return
Status2Query(at, next, name, results) ==
    /\ cmd = "status2"
    /\ pc = at
    /\ \/ /\ lists' = [lists EXCEPT ![name] = <<>>]
          /\ events' = Append(events, Ev("Status", "failed"))
       \/ \E result \in results :
            /\ lists' = [lists EXCEPT ![name] = result]
            /\ events' = Append(events, Ev("Status", "ok"))
    /\ pc' = next
    /\ UNCHANGED <<cmd, status, stdout, stderr, exitCode, flags, stagedPaths, message,
                   gen, env, responses, commits, author>>

Status2Staged ==
    Status2Query("start", "q_modified", "staged", {StagedFiles(status, o) : o \in RangeOrders})
Status2Modified ==
    Status2Query("q_modified", "q_added", "modified", {ModifiedFiles(status, o) : o \in RangeOrders})
Status2Added ==
    Status2Query("q_added", "q_deleted", "added", {AddedFiles(status, o) : o \in RangeOrders})
Status2Deleted ==
    Status2Query("q_deleted", "q_renamed", "deleted", {DeletedFiles(status, o) : o \in RangeOrders})
Status2Renamed ==
    Status2Query("q_renamed", "q_untracked", "renamed", {RenamedFiles(status, o) : o \in RangeOrders})
Status2Untracked ==
    Status2Query("q_untracked", "render", "untracked", {UntrackedFiles(status, o) : o \in RangeOrders})

Status2Render ==
    /\ cmd = "status2"
    /\ pc = "render"
    /\ \E branch \in Branches :
         LET out == <<<<"On branch", branch>>>> \o Sections(lists)
         IN stdout' = stdout \o statusOutput(lists, out)
    /\ pc' = "done"
    /\ UNCHANGED <<cmd, status, lists, stderr, exitCode>>
    /\ UNCHANGED commitVars

----------------------------------------------------------------------------
(* commit1: commitCmd.Run with the single OpenAI call and the heuristic *)

\* "Collect staged entries": the paths with s.Staging != git.Unmodified
collectStaged(st, order) == SelectSeq(order, LAMBDA p : st[p].Staging # "Unmodified")

\* variant: the validation is skipped
NothingToCommitNever(paths, allowEmpty) == FALSE

\* the validation "len(stagedPaths) == 0 && !allowEmpty"
NothingToCommit(paths, allowEmpty) == Len(paths) = 0 /\ ~allowEmpty

Commit1Start ==
    /\ cmd = "commit1"
    /\ pc = "start"
    /\ \/ /\ Fatal("error: failed to compute status")
          /\ events' = Append(events, Ev("Status", "failed"))
          /\ UNCHANGED stagedPaths
       \/ \E order \in Orders(DOMAIN status) :
            LET sp == collectStaged(status, order)
            IN /\ stagedPaths' = sp
               /\ events' = Append(events, Ev("Status", "ok"))
               /\ IF NothingToCommit(sp, flags.allowEmpty)
                  THEN Fatal("error: no staged changes to commit (use 'bgit add' or --allow-empty)")
                  ELSE /\ pc' = "message"
                       /\ UNCHANGED <<stderr, exitCode>>
    /\ UNCHANGED <<cmd, status, lists, stdout, flags, message, gen, env, responses,
                   commits, author>>

\* variant: a message is generated even when one was supplied
needsGenerationAlways(msg, noAI) == ~noAI

\* variant: the no-ai flag is not looked at
needsGenerationDespiteNoAI(msg, noAI) == msg = <<>>

\* "if message == "" && !noAI", the guard of message generation
needsGeneration(msg, noAI) == msg = <<>> /\ ~noAI

\* "if message == "" && !noAI": read OPENAI_API_KEY; without a key the
\* heuristic message is used
Commit1Lookup ==
    /\ cmd = "commit1"
    /\ pc = "message"
    /\ IF needsGeneration(message, flags.noAI)
       THEN \E v \in EnvValues :
              /\ env' = env \o <<[name |-> "OPENAI_API_KEY", value |-> v]>>
              /\ events' = Append(events, Ev("Getenv", "OPENAI_API_KEY"))
              /\ IF Getenv(v) = <<>>
                 THEN /\ stdout' = Append(stdout, "OPENAI_API_KEY not set; falling back to basic generated message.")
                      /\ gen' = [gen EXCEPT !.warnings = Append(@, "OPENAI_API_KEY not set")]
                      /\ \E extOrder \in Orders(ExtKeys(stagedPaths)) :
                           message' = basicHeuristicMessage(stagedPaths, extOrder)
                      /\ pc' = "check"
                 ELSE /\ pc' = "request"
                      /\ UNCHANGED <<stdout, gen, message>>
       ELSE /\ pc' = "check"
            /\ UNCHANGED <<env, events, stdout, gen, message>>
    /\ UNCHANGED <<cmd, status, lists, stderr, exitCode, flags, stagedPaths, responses,
                   commits, author>>

\* generateAICommitMessage under the 15 second context: a request that never
\* answers ends as an error when the context expires
Commit1Request ==
    /\ cmd = "commit1"
    /\ pc = "request"
    /\ \E resp \in Responses :
         LET r == ChatCompletion(resp)
         IN /\ responses' = responses \o <<[provider |-> "OpenAI", response |-> resp]>>
            /\ events' = Append(events, Ev("ChatCompletion", "OpenAI"))
            /\ IF r.err # "nil"
               THEN /\ stdout' = Append(stdout, <<"AI generation failed", r.err>>)
                    /\ gen' = [gen EXCEPT !.warnings = Append(@, "AI generation failed")]
                    /\ \E extOrder \in Orders(ExtKeys(stagedPaths)) :
                         message' = basicHeuristicMessage(stagedPaths, extOrder)
               ELSE /\ message' = r.text
                    /\ UNCHANGED <<stdout, gen>>
    /\ pc' = "check"
    /\ UNCHANGED <<cmd, status, lists, stderr, exitCode, flags, stagedPaths, env,
                   commits, author>>

\* variant: the preview does not return
afterCheckAlways(dryRun) == "commit"

\* "if dryRun { ...preview...; return }": where Run goes after the message
\* check
afterCheck(dryRun) == IF dryRun THEN "done" ELSE "commit"

\* "message still empty and AI disabled", then the dry-run preview
Commit1Check ==
    /\ cmd = "commit1"
    /\ pc = "check"
    /\ IF message = <<>>
       THEN /\ Fatal("error: commit message required (provide -m or enable AI)")
            /\ UNCHANGED stdout
       ELSE IF flags.dryRun
       THEN /\ stdout' = stdout
                 \o << "Dry run commit preview:", <<"Message", firstLine(message)>> >>
                 \o [i \in 1..Len(stagedPaths) |-> <<"bullet", stagedPaths[i]>>]
                 \o (IF Len(stagedPaths) = 0
                     THEN <<"  (none; empty commit would be created)">> ELSE <<>>)
            /\ pc' = afterCheck(flags.dryRun)
            /\ UNCHANGED <<stderr, exitCode>>
       ELSE /\ pc' = afterCheck(flags.dryRun)
            /\ UNCHANGED <<stdout, stderr, exitCode>>
    /\ UNCHANGED <<cmd, status, lists, flags, stagedPaths, message, gen, env, responses,
                   events, commits, author>>

\* variant: a failed commit call is made again
commitFailedRetry == pc' = "commit" /\ UNCHANGED <<stderr, exitCode>>

\* exitWithError(fmt.Errorf("failed to create commit: %w", err))
commitFailed == Fatal("error: failed to create commit")

\* author resolution, then wt.Commit
Commit1Commit ==
    /\ cmd = "commit1"
    /\ pc = "commit"
    /\ \E vn \in EnvValues, ve \in EnvValues :
         LET o == ParseAuthor(flags.authorStr)
             fallback == o.name = <<>> \/ o.email = <<>>
             lookups == IF fallback
                        THEN <<Ev("Getenv", "GIT_AUTHOR_NAME"), Ev("Getenv", "GIT_AUTHOR_EMAIL")>>
                        ELSE <<>>
             a == IF fallback THEN ResolveAuthor(flags.authorStr, vn, ve) ELSE o
         IN /\ env' = IF fallback
                      THEN env \o <<[name |-> "GIT_AUTHOR_NAME", value |-> vn],
                                    [name |-> "GIT_AUTHOR_EMAIL", value |-> ve]>>
                      ELSE env
            /\ author' = a
            /\ events' = events \o lookups \o <<Ev("Commit", message)>>
            /\ \/ /\ commitFailed
                  /\ UNCHANGED commits
               \/ /\ commits' = Append(commits,
                        [message |-> message, authorName |-> a.name, authorEmail |-> a.email])
                  /\ pc' = "readback"
                  /\ UNCHANGED <<stderr, exitCode>>
    /\ UNCHANGED <<cmd, status, lists, stdout, flags, stagedPaths, message, gen, responses>>

\* cli.repo.CommitObject and the report of the commit read back
Commit1Readback ==
    /\ cmd = "commit1"
    /\ pc = "readback"
    /\ events' = Append(events, Ev("CommitObject", <<>>))
    /\ \/ /\ Fatal("error: commit created but retrieval failed")
          /\ UNCHANGED stdout
       \/ LET c == commits[Len(commits)]
          IN /\ stdout' = stdout
                  \o << "Commit created:",
                        <<"Author", c.authorName, c.authorEmail>>,
                        <<"Subject", firstLine(c.message)>> >>
                  \o (IF Len(stagedPaths) > 0
                      THEN [i \in 1..Len(stagedPaths) |-> <<"bullet", stagedPaths[i]>>]
                      ELSE <<"(Empty commit)">>)
             /\ pc' = "done"
             /\ UNCHANGED <<stderr, exitCode>>
    /\ UNCHANGED <<cmd, status, lists, flags, stagedPaths, message, gen, env, responses,
                   commits, author>>

----------------------------------------------------------------------------
(* commit2: commitCmd.Run over the services and config.Providers *)

\* the output of "git diff <file>" for one path
DiffOf(path) == <<"d", " ">> \o path \o <<"\n">>

\* GetStagedFilesDiff when every per-path call succeeds
RECURSIVE ConcatDiffs(_)
ConcatDiffs(paths) ==
    IF paths = <<>> THEN <<>> ELSE DiffOf(Head(paths)) \o ConcatDiffs(Tail(paths))

\* err.Error() of a "git diff <file>" that did not exit with 0
ExecErrors ==
    { <<"e", "x", "i", "t", " ", "s", "t", "a", "t", "u", "s", " ", "1">>,
      <<"e", "x", "i", "t", " ", "s", "t", "a", "t", "u", "s", " ", "1", "2", "8">> }

\* ErrUnkwownGitIssue.Error()
ErrUnkwownGitIssue(msg) ==
    <<"g", "i", "t", ":", " ", "u", "n", "k", "n", "o", "w", "n", " ", "g", "i", "t", " ",
      "i", "s", "s", "u", "e", ":", " ">> \o msg

\* GetStagedFilesDiff: n is the file whose "git diff" fails with execErr,
\* Len(paths) + 1 when none fails; the result is [diff, err], err empty for nil
GetStagedFilesDiff(paths, n, execErr) ==
    IF n <= Len(paths)
    THEN [diff |-> <<>>, err |-> ErrUnkwownGitIssue(execErr)]
    ELSE [diff |-> ConcatDiffs(paths), err |-> <<>>]

KnownProviders == {"OpenAI", "OpenRouter"}

Commit2Start ==
    /\ cmd = "commit2"
    /\ pc = "start"
    /\ \/ /\ Fatal("error: failed to get staged files")
          /\ events' = Append(events, Ev("Status", "failed"))
          /\ UNCHANGED <<stagedPaths, stdout>>
       \/ \E order \in Orders(DOMAIN status) :
            LET sf == StagedFiles(status, order)
            IN /\ stagedPaths' = sf
               /\ events' = Append(events, Ev("Status", "ok"))
               /\ IF Len(sf) = 0
                  THEN /\ stdout' = Append(stdout, "No staged files to commit. Use 'bgit add' to stage files first.")
                       /\ pc' = "done"
                  ELSE /\ stdout' = stdout \o <<<<"Found staged files", Len(sf)>>>>
                                    \o [i \in 1..Len(sf) |-> <<"bullet", sf[i]>>]
                       /\ pc' = "message"
               /\ UNCHANGED <<stderr, exitCode>>
    /\ UNCHANGED <<cmd, status, lists, flags, message, gen, env, responses, commits, author>>

\* "if message == "" && !noAI": collect the diff of the staged files, one
\* "git diff <file>" per path, stopping at the first one that fails
Commit2Message ==
    /\ cmd = "commit2"
    /\ pc = "message"
    /\ IF needsGeneration(message, flags.noAI)
       THEN \E n \in 1..(Len(stagedPaths) + 1), execErr \in ExecErrors :
              \* n is the path whose diff fails; Len + 1 when none does
              LET asked == SubSeq(stagedPaths, 1, IF n > Len(stagedPaths) THEN Len(stagedPaths) ELSE n)
                  r == GetStagedFilesDiff(stagedPaths, n, execErr)
              IN /\ events' = events \o [i \in 1..Len(asked) |-> Ev("Diff", asked[i])]
                 /\ stdout' = Append(stdout, "Generating commit message using AI...")
                 /\ gen' = [gen EXCEPT !.diff = r.diff]
                 /\ IF r.err # <<>>
                    THEN Fatal(<<"error: failed to get staged diff", r.err>>)
                    ELSE /\ pc' = "provider"
                         /\ UNCHANGED <<stderr, exitCode>>
       ELSE IF message = <<>>
       THEN /\ Fatal("error: commit message is required. Use -m flag or enable AI generation")
            /\ UNCHANGED <<events, stdout, gen>>
       ELSE /\ pc' = "dryrun"
            /\ UNCHANGED <<events, stdout, gen, stderr, exitCode>>
    /\ UNCHANGED <<cmd, status, lists, flags, stagedPaths, message, env, responses,
                   commits, author>>

\* variant: a failed provider is skipped without a warning
ProviderFailedSilent(g, err) ==
    [g EXCEPT !.generatedMessage = <<>>, !.idx = @ + 1]

\* the loop's handling of a provider whose GenerateCommitMessage returned an
\* error: the warning line, then the next provider
ProviderFailed(g, err) ==
    [g EXCEPT !.generatedMessage = <<>>,
              !.warnings = Append(@, [provider |-> Providers[g.idx].Name, err |-> err]),
              !.idx = @ + 1]

\* variant: the loop has no "break"
AfterProviderNoBreak(g, err) ==
    IF g.idx + 1 > Len(Providers) THEN "after" ELSE "provider"

\* where the loop goes after a provider: "break" on a nil error, else on to
\* the next provider, or out of the loop after the last one
AfterProvider(g, err) ==
    IF err = "nil" THEN "after"
    ELSE IF g.idx + 1 > Len(Providers) THEN "after" ELSE "provider"

\* variant: a key is returned whether or not the variable exists
getAPIKeyAlways(v) == [key |-> v.val, err |-> "nil"]

\* getOpenAIAPIKey / getOpenRouterAPIKey: os.LookupEnv, ErrAPIKeyNotFound when
\* the variable does not exist
getAPIKey(v) ==
    IF v.set THEN [key |-> v.val, err |-> "nil"]
    ELSE [key |-> <<>>, err |-> "API key not found"]

\* GenerateCommitMessage, first half: the provider switch and the key lookup
Commit2Lookup ==
    /\ cmd = "commit2"
    /\ pc = "provider"
    /\ LET p == Providers[gen.idx]
       IN IF p.Name \notin KnownProviders
          THEN /\ gen' = ProviderFailed(gen, "unknown AI provider")
               /\ stderr' = Append(stderr, <<"warning", p.Name, "unknown AI provider">>)
               /\ pc' = AfterProvider(gen, "unknown AI provider")
               /\ UNCHANGED <<env, events>>
          ELSE \E v \in EnvValues :
                 /\ env' = env \o <<[name |-> p.EnvName, value |-> v]>>
                 /\ events' = Append(events, Ev("LookupEnv", p.EnvName))
                 /\ IF getAPIKey(v).err = "nil"
                    THEN /\ pc' = "request"
                         /\ UNCHANGED <<gen, stderr>>
                    ELSE /\ gen' = ProviderFailed(gen, getAPIKey(v).err)
                         /\ stderr' = Append(stderr, <<"warning", p.Name, getAPIKey(v).err>>)
                         /\ pc' = AfterProvider(gen, getAPIKey(v).err)
    /\ UNCHANGED <<cmd, status, lists, stdout, exitCode, flags, stagedPaths, message,
                   responses, commits, author>>

\* GenerateCommitMessage, second half: the chat completion under
\* context.Background(); a request that never answers is never abandoned
Commit2Request ==
    /\ cmd = "commit2"
    /\ pc = "request"
    /\ \E resp \in Responses :
         LET p == Providers[gen.idx]
             r == ChatCompletion(resp)
         IN /\ responses' = responses \o <<[provider |-> p.Name, response |-> resp]>>
            /\ events' = Append(events, Ev("ChatCompletion", p.Name))
            /\ IF resp.kind = "hang"
               THEN /\ pc' = "hung"
                    /\ UNCHANGED <<gen, stderr>>
               ELSE IF r.err = "nil"
               THEN /\ gen' = [gen EXCEPT !.generatedMessage = r.text]
                    /\ pc' = AfterProvider(gen, r.err)
                    /\ UNCHANGED stderr
               ELSE /\ gen' = ProviderFailed(gen, r.err)
                    /\ stderr' = Append(stderr, <<"warning", p.Name, r.err>>)
                    /\ pc' = AfterProvider(gen, r.err)
    /\ UNCHANGED <<cmd, status, lists, stdout, exitCode, flags, stagedPaths, message,
                   env, commits, author>>

\* after the loop: "if generatedMessage == """
Commit2After ==
    /\ cmd = "commit2"
    /\ pc = "after"
    /\ IF gen.generatedMessage = <<>>
       THEN /\ Fatal("error: failed to generate commit message with all providers")
            /\ stdout' = Append(stdout, "Hint: Provide a message with -m flag or set OPENAI_API_KEY environment variable")
            /\ UNCHANGED message
       ELSE /\ message' = gen.generatedMessage
            /\ stdout' = Append(stdout, <<"Generated message", gen.generatedMessage>>)
            /\ pc' = "dryrun"
            /\ UNCHANGED <<stderr, exitCode>>
    /\ UNCHANGED <<cmd, status, lists, flags, stagedPaths, gen, env, responses, events,
                   commits, author>>

Commit2DryRun ==
    /\ cmd = "commit2"
    /\ pc = "dryrun"
    /\ IF flags.dryRun
       THEN /\ stdout' = stdout \o << "=== DRY RUN ===", <<"Would commit with message", message>> >>
            /\ pc' = "done"
       ELSE /\ pc' = "commit"
            /\ UNCHANGED stdout
    /\ UNCHANGED <<cmd, status, lists, stderr, exitCode, flags, stagedPaths, message, gen,
                   env, responses, events, commits, author>>

CommitAuthorName == <<"e", "n", "d", "a", "l", "k", "2", "0", "0">>
CommitAuthorEmail == <<"e", "b", "8", "0", "8", "8", "2", "6", "@", "g", "m", "a", "i", "l", ".", "c", "o", "m">>

\* GitCLI.Commit: workTree.Commit
Commit2Commit ==
    /\ cmd = "commit2"
    /\ pc = "commit"
    /\ events' = Append(events, Ev("Commit", message))
    /\ \/ /\ Fatal("error: failed to create commit")
          /\ UNCHANGED commits
       \/ /\ commits' = Append(commits,
                [message |-> message, authorName |-> CommitAuthorName,
                 authorEmail |-> CommitAuthorEmail])
          /\ pc' = "readback"
          /\ UNCHANGED <<stderr, exitCode>>
    /\ UNCHANGED <<cmd, status, lists, stdout, flags, stagedPaths, message, gen, env,
                   responses, author>>

\* GitCLI.Commit: g.repo.CommitObject and the report
Commit2Readback ==
    /\ cmd = "commit2"
    /\ pc = "readback"
    /\ events' = Append(events, Ev("CommitObject", <<>>))
    /\ \/ /\ Fatal("error: failed to create commit")
          /\ UNCHANGED stdout
       \/ LET c == commits[Len(commits)]
          IN /\ stdout' = stdout
                  \o << "Commit created successfully!",
                        <<"Author", c.authorName, c.authorEmail>>,
                        <<"Message", message>> >>
             /\ pc' = "done"
             /\ UNCHANGED <<stderr, exitCode>>
    /\ UNCHANGED <<cmd, status, lists, flags, stagedPaths, message, gen, env, responses,
                   commits, author>>

----------------------------------------------------------------------------
(* basicHeuristicMessage on its own *)

\* the longest path list given to basicHeuristicMessage
MaxHeuristicPaths == 5

\* paths with one ".", several ".", no "." and a final "."
HeuristicPool ==
    PathPool \cup { <<"d", ".", "j", "s">>, <<"a", ".", "b", ".", "m", "d">>, <<"m">>,
                    <<"y", ".">> }

\* stagedPaths is filled from the keys of the status map: any order, no path
\* twice
HeuristicInputs ==
    UNION { {s \in [1..n -> HeuristicPool] :
                \A i, j \in 1..n : i # j => s[i] # s[j]} : n \in 0..MaxHeuristicPaths }

InitHeuristic ==
    /\ cmd = "heuristic"
    /\ pc = "start"
    /\ status = <<>>
    /\ flags = NoFlags
    /\ lists = EmptyLists
    /\ stdout = <<>>
    /\ stderr = <<>>
    /\ exitCode = 0
    /\ stagedPaths \in HeuristicInputs
    /\ message = <<>>
    /\ gen = NoGen
    /\ env = <<>>
    /\ responses = <<>>
    /\ events = <<>>
    /\ commits = <<>>
    /\ author = NoAuthor

\* message = basicHeuristicMessage(stagedPaths)
HeuristicCall ==
    /\ cmd = "heuristic"
    /\ pc = "start"
    /\ \E extOrder \in Orders(ExtKeys(stagedPaths)) :
           message' = basicHeuristicMessage(stagedPaths, extOrder)
    /\ pc' = "done"
    /\ UNCHANGED <<cmd, status, lists, stdout, stderr, exitCode, flags, stagedPaths, gen,
                   env, responses, events, commits, author>>

----------------------------------------------------------------------------

NextStatus ==
    \/ Status1Collect
    \/ Status1Render
    \/ Status2Staged
    \/ Status2Modified
    \/ Status2Added
    \/ Status2Deleted
    \/ Status2Renamed
    \/ Status2Untracked
    \/ Status2Render

NextCommit ==
    \/ Commit1Start
    \/ Commit1Lookup
    \/ Commit1Request
    \/ Commit1Check
    \/ Commit1Commit
    \/ Commit1Readback
    \/ Commit2Start
    \/ Commit2Message
    \/ Commit2Lookup
    \/ Commit2Request
    \/ Commit2After
    \/ Commit2DryRun
    \/ Commit2Commit
    \/ Commit2Readback

NextHeuristic == HeuristicCall

Next == NextStatus \/ NextCommit \/ NextHeuristic

Init == InitWith(Commands) \/ InitHeuristic

Spec == Init /\ [][Next]_vars

\* the status commands alone, and the commit commands alone
SpecStatus == InitStatus /\ [][NextStatus]_vars
SpecCommit == InitCommit /\ [][NextCommit]_vars

\* the commit commands asked to synthesise the message of one staged file
InitSynthesis ==
    /\ InitCommit
    /\ flags.message = <<>> /\ ~flags.noAI
    /\ ~flags.allowEmpty /\ flags.authorStr = <<>>
    /\ Cardinality(DOMAIN status) = 1

\* message synthesis run to its end: commitCmd.Run is one goroutine that is
\* always scheduled, so a step that can be taken is taken
SpecSynthesisFair == InitSynthesis /\ [][NextCommit]_vars /\ WF_vars(NextCommit)

\* basicHeuristicMessage alone
SpecHeuristic == InitHeuristic /\ [][NextHeuristic]_vars

----------------------------------------------------------------------------
(* Properties of the commit flow *)

Ops == {events[i].op : i \in 1..Len(events)}

\* the message was to be synthesized, and synthesis has come to its end
SynthesisEnded ==
    /\ flags.message = <<>>
    /\ ~flags.noAI
    /\ \/ cmd = "commit1" /\ pc = "check"
       \/ cmd = "commit2" /\ pc = "after"

\* C1: whatever the diff and the providers do, message synthesis ends with a
\* non-empty message: when no provider produced one, the heuristic message
\* stands in and the commit is not aborted.
C1_SynthesisYieldsMessage ==
    SynthesisEnded =>
        (IF cmd = "commit1" THEN message ELSE gen.generatedMessage) # <<>>

\* the providers looked up so far, and what came back from them
Looked(i) == \E j \in 1..Len(env) : env[j].name = Providers[i].EnvName
KeyOf(i) == (CHOOSE j \in 1..Len(env) : env[j].name = Providers[i].EnvName)
Asked(i) == \E j \in 1..Len(responses) : responses[j].provider = Providers[i].Name
AnswerOf(i) ==
    responses[CHOOSE j \in 1..Len(responses) : responses[j].provider = Providers[i].Name].response

\* provider i had a credential and its call returned without an error
Succeeded(i) ==
    /\ Looked(i) /\ env[KeyOf(i)].value.set
    /\ Asked(i) /\ ChatCompletion(AnswerOf(i)).err = "nil"

WarnedProviders == [j \in 1..Len(gen.warnings) |-> gen.warnings[j].provider]

\* C2: when provider k is the first with a credential and a successful call,
\* the loop ends with k's text, with one warning for each provider before k
\* in list order, and with nothing looked up or asked of a later provider.
C2_FirstSuccessWins ==
    (cmd = "commit2" /\ pc \in {"after", "dryrun"} /\ flags.message = <<>>
        /\ \E i \in 1..Len(Providers) : Succeeded(i))
    => LET k == Min({i \in 1..Len(Providers) : Succeeded(i)})
       IN /\ gen.generatedMessage = TrimSpace(AnswerOf(k).content)
          /\ pc = "dryrun" => message = TrimSpace(AnswerOf(k).content)
          /\ WarnedProviders = [j \in 1..(k - 1) |-> Providers[j].Name]
          /\ Len(stderr) = k - 1
          /\ \A j \in (k + 1)..Len(Providers) : ~Looked(j) /\ ~Asked(j)

C2_Witness ==
    /\ cmd = "commit2" /\ pc = "dryrun"
    /\ ~Succeeded(1) /\ Succeeded(2)
    /\ Len(gen.warnings) = 1
    /\ message = <<"a", "d", "d">>

\* C3: with dry-run set, the backend commit primitive is never called and no
\* commit is created, whatever the other inputs are.
C3_DryRunNeverCommits ==
    (cmd \in CommitCommands /\ flags.dryRun)
    => ("Commit" \notin Ops /\ "CommitObject" \notin Ops /\ commits = <<>>)

C3_Witness ==
    /\ cmd = "commit1" /\ flags.dryRun /\ pc = "done"
    /\ flags.allowEmpty /\ stagedPaths = <<>>
    /\ flags.authorStr # <<>>
    /\ \E i \in 1..Len(stdout) : stdout[i] = "Dry run commit preview:"

\* C4: with nothing staged and allow-empty not set, the flow stops at the
\* validation: the status query is the only call ever made, so no diff is
\* collected, no credential looked up, no provider asked, no commit created.
C4_ValidationFirst ==
    (cmd \in CommitCommands /\ pc # "start" /\ stagedPaths = <<>> /\ ~flags.allowEmpty)
    => /\ pc \in {"exit", "done"}
       /\ Ops = {"Status"}
       /\ commits = <<>>
       /\ env = <<>> /\ responses = <<>>

C4_Witness ==
    /\ cmd = "commit1" /\ pc = "exit" /\ ~flags.allowEmpty
    /\ flags.message = <<>> /\ ~flags.noAI
    /\ DOMAIN status # {}
    /\ events = <<Ev("Status", "ok")>>
    /\ stderr = <<"error: no staged changes to commit (use 'bgit add' or --allow-empty)">>

----------------------------------------------------------------------------
(* Properties of the status classification *)

\* the six slices are final
Classified == cmd \in StatusCommands /\ pc \in {"render", "done"}

\* every status query the command made succeeded
QueriesOk == \A i \in 1..Len(events) : events[i].op = "Status" => events[i].arg = "ok"

InList(p, n) == p \in Range(lists[n])

\* C5: each of the six slices is sorted lexicographically and holds no path
\* twice.
C5_SortedNoDuplicates ==
    (Classified /\ QueriesOk)
    => \A n \in ListNames :
         \A i \in 1..Len(lists[n]), j \in 1..Len(lists[n]) :
            i < j => StrLess(lists[n][i], lists[n][j])

\* C6: a path that is Unmodified on both axes is in none of the six slices.
C6_UnmodifiedInNoSet ==
    cmd \in StatusCommands
    => \A p \in DOMAIN status :
         (status[p].Staging = "Unmodified" /\ status[p].Worktree = "Unmodified")
         => \A n \in ListNames : ~InList(p, n)

C6_Witness ==
    /\ Classified /\ QueriesOk
    /\ TotalLen(lists) > 0
    /\ \E p \in DOMAIN status :
         status[p].Staging = "Unmodified" /\ status[p].Worktree = "Unmodified"

\* C7: a path staged as Modified is in staged; a path Added in the worktree
\* and Unmodified in the index is in untracked and not in added.
C7_ModifiedStagedAddedUntracked ==
    (Classified /\ QueriesOk)
    => \A p \in DOMAIN status :
         /\ status[p].Staging = "Modified" => InList(p, "staged")
         /\ (status[p].Worktree = "Added" /\ status[p].Staging = "Unmodified")
            => (InList(p, "untracked") /\ ~InList(p, "added"))

\* the slice each staging state selects, and the slice each worktree state
\* selects
StagingSet(code) ==
    CASE code = "Modified" -> "staged"
      [] code = "Added" -> "added"
      [] code = "Deleted" -> "deleted"
      [] code = "Renamed" -> "renamed"
      [] code = "Untracked" -> "untracked"

WorktreeSet(code) ==
    CASE code = "Modified" -> "modified"
      [] code = "Added" -> "untracked"
      [] code = "Deleted" -> "deleted"
      [] code = "Renamed" -> "renamed"
      [] code = "Untracked" -> "untracked"

\* C8: the staging state alone selects a slice: Added -> added, Deleted ->
\* deleted, Renamed -> renamed, Untracked -> untracked, Modified -> staged,
\* and with a clean worktree the path is in no other slice.
C8_RoutedByStagingState ==
    (Classified /\ QueriesOk)
    => \A p \in DOMAIN status :
         status[p].Staging # "Unmodified"
         => /\ InList(p, StagingSet(status[p].Staging))
            /\ status[p].Worktree = "Unmodified"
               => \A n \in ListNames \ {StagingSet(status[p].Staging)} : ~InList(p, n)

\* C9: a path changed on both axes is in the slice its staging state selects
\* and in the slice its worktree state selects (collectStatus); the service
\* queries list such a path under both staged and modified. The slices are
\* not mutually exclusive.
C9_BothAxes ==
    (Classified /\ QueriesOk)
    => \A p \in DOMAIN status :
         (status[p].Staging # "Unmodified" /\ status[p].Worktree # "Unmodified")
         => IF cmd = "status1"
            THEN /\ InList(p, StagingSet(status[p].Staging))
                 /\ InList(p, WorktreeSet(status[p].Worktree))
            ELSE InList(p, "staged") /\ InList(p, "modified")

C9_Witness ==
    /\ cmd = "status1" /\ pc = "done"
    /\ \E p \in DOMAIN status :
         /\ status[p].Staging = "Modified" /\ status[p].Worktree = "Modified"
         /\ InList(p, "staged") /\ InList(p, "modified")

\* C10: an empty status listing classifies into six empty slices, and the
\* status command prints the single line "Working tree clean": no branch
\* header, no section header.
C10_EmptyIsClean ==
    (Classified /\ DOMAIN status = {})
    => /\ lists = EmptyLists
       /\ pc = "done" => stdout = <<"Working tree clean">>

C10_Witness ==
    /\ cmd = "status1" /\ pc = "done" /\ QueriesOk
    /\ DOMAIN status = {}
    /\ stdout = <<"Working tree clean">>

\* some status query of the command failed
StatusFailed == \E i \in 1..Len(events) : events[i] = Ev("Status", "failed")

\* C11: when the backend status query fails, the status command reports an
\* error and never prints "Working tree clean".
C11_FailedQueryIsAnError ==
    (cmd \in StatusCommands /\ StatusFailed /\ pc \in {"done", "exit"})
    => /\ "Working tree clean" \notin Range(stdout)
       /\ stderr # <<>>
       /\ exitCode = 1

----------------------------------------------------------------------------
(* Properties of the heuristic message *)

\* a finished call of basicHeuristicMessage on stagedPaths, returning message
HeuristicDone == cmd = "heuristic" /\ pc = "done"

\* the extension of a path as the specification words it: the text after the
\* last "."; nothing when the path has no "." or ends with one
SpecExt(p) ==
    LET last == {i \in 1..Len(p) : p[i] = "." /\ \A j \in (i + 1)..Len(p) : p[j] # "."}
    IN  IF last = {} \/ last = {Len(p)} THEN <<>>
        ELSE SubSeq(p, (CHOOSE i \in last : TRUE) + 1, Len(p))

SpecExts(paths) == {SpecExt(paths[i]) : i \in 1..Len(paths)} \ {<<>>}

\* number of paths with the extension, and where it is first seen
SpecCount(paths, ext) == Cardinality({i \in 1..Len(paths) : SpecExt(paths[i]) = ext})
FirstSeen(paths, ext) == Min({i \in 1..Len(paths) : SpecExt(paths[i]) = ext})

\* "<count> <ext> file" for one path, "<count> <ext> files" for more
SpecEntry(paths, ext) ==
    Itoa(SpecCount(paths, ext)) \o <<" ">> \o ext
    \o <<" ", "f", "i", "l", "e">> \o (IF SpecCount(paths, ext) = 1 THEN <<>> ELSE <<"s">>)

\* "update N paths (<entries, comma separated>)" listing the extensions of ord
SpecMessage(paths, ord) ==
    <<"u", "p", "d", "a", "t", "e", " ">> \o Itoa(Len(paths))
    \o <<" ", "p", "a", "t", "h", "s", " ", "(">>
    \o Join([i \in 1..Len(ord) |-> SpecEntry(paths, ord[i])], <<",", " ">>) \o <<")">>

\* the entries between "update N paths (" and the final ")", as the message
\* separates them; <<"?">> when the message is not of that form
Entries(msg, paths) ==
    LET pre == SpecMessage(paths, <<>>)
        n == Len(pre) - 1
        mid == SubSeq(msg, n + 1, Len(msg) - 1)
        parts == IF mid = <<>> THEN <<>> ELSE Split(mid, ",")
    IN  IF Len(msg) > n /\ SubSeq(msg, 1, n) = SubSeq(pre, 1, n) /\ msg[Len(msg)] = ")"
        THEN [i \in 1..Len(parts) |->
                 IF i = 1 THEN parts[1]
                 ELSE IF parts[i] # <<>> /\ parts[i][1] = " " THEN Tail(parts[i])
                 ELSE <<"?">>]
        ELSE << <<"?">> >>

\* the extensions a message lists, in the order it lists them: every entry is
\* the entry of one extension of the paths, and none is listed twice
Listings(msg, paths) ==
    LET entries == Entries(msg, paths)
        extFor(i) == {e \in SpecExts(paths) : SpecEntry(paths, e) = entries[i]}
    IN  IF /\ \A i \in 1..Len(entries) : extFor(i) # {}
           /\ \A i, j \in 1..Len(entries) : i # j => entries[i] # entries[j]
        THEN {[i \in 1..Len(entries) |-> CHOOSE e \in extFor(i) : TRUE]}
        ELSE {}

\* e1 is listed before e2: more paths, or as many and seen first
RanksBefore(paths, e1, e2) ==
    \/ SpecCount(paths, e1) > SpecCount(paths, e2)
    \/ /\ SpecCount(paths, e1) = SpecCount(paths, e2)
       /\ FirstSeen(paths, e1) < FirstSeen(paths, e2)

\* sub occurs in s
Contains(s, sub) ==
    \E i \in 1..(Len(s) - Len(sub) + 1) : SubSeq(s, i, i + Len(sub) - 1) = sub

\* C12: the heuristic message lists the extension entries by descending count,
\* ties in first-seen order; for a.go, b.go, c.py it contains "update 3 paths"
\* and lists go before py.
C12_EntriesRanked ==
    HeuristicDone =>
        /\ \A ord \in Listings(message, stagedPaths) :
               \A i, j \in 1..Len(ord) :
                   i < j => RanksBefore(stagedPaths, ord[i], ord[j])
        /\ stagedPaths = << <<"a", ".", "g", "o">>, <<"b", ".", "g", "o">>,
                            <<"c", ".", "p", "y">> >>
           => /\ Contains(message, <<"u", "p", "d", "a", "t", "e", " ", "3", " ",
                                     "p", "a", "t", "h", "s">>)
              /\ Listings(message, stagedPaths) = { << <<"g", "o">>, <<"p", "y">> >> }

\* C13: with more than three distinct extensions the message lists exactly
\* three, those with the highest counts; with three or fewer it lists all.
C13_TopThree ==
    HeuristicDone =>
        \A ord \in Listings(message, stagedPaths) :
            LET all == SpecExts(stagedPaths)
                listed == Range(ord)
            IN  IF Cardinality(all) > 3
                THEN /\ Len(ord) = 3
                     /\ \A e \in listed : \A f \in all \ listed :
                            SpecCount(stagedPaths, e) >= SpecCount(stagedPaths, f)
                ELSE listed = all

\* C14: an extension is the text after the last "." of a path, paths without
\* one add no entry, N counts every path, each entry carries the number of
\* paths with its extension, and the noun is "file" for one and "files" for more.
C14_EntriesCountExtensions ==
    (HeuristicDone /\ stagedPaths # <<>>) => Listings(message, stagedPaths) # {}

\* a call on paths with several ".", no "." and a final ".", and an extension
\* counted twice
C14_Witness ==
    /\ HeuristicDone
    /\ {<<"m">>, <<"y", ".">>, <<"a", ".", "b", ".", "m", "d">>, <<"a", ".", "g", "o">>}
           \subseteq Range(stagedPaths)
    /\ Contains(message, <<"2", " ", "g", "o", " ", "f", "i", "l", "e", "s">>)

\* C15: the heuristic always yields a message: "chore: empty commit" for no
\* paths, one beginning with "update " otherwise.
C15_NeverEmpty ==
    HeuristicDone =>
        /\ message # <<>>
        /\ stagedPaths = <<>>
           => message = <<"c", "h", "o", "r", "e", ":", " ", "e", "m", "p", "t", "y", " ",
                          "c", "o", "m", "m", "i", "t">>
        /\ stagedPaths # <<>>
           => /\ Len(message) >= 7
              /\ SubSeq(message, 1, 7) = <<"u", "p", "d", "a", "t", "e", " ">>

\* a call with no paths
C15_Witness == HeuristicDone /\ stagedPaths = <<>>

----------------------------------------------------------------------------
(* Properties of the commit itself *)

\* the override as the specification reads it: one "<", a final ">", the name
\* before the "<" and the email between the two, both trimmed and non-empty
SpecOverride(authorStr) ==
    LET lt == IndexesOf(authorStr, "<")
        i == CHOOSE k \in lt : TRUE
        name == TrimSpace(SubSeq(authorStr, 1, i - 1))
        email == TrimSpace(SubSeq(authorStr, i + 1, Len(authorStr) - 1))
    IN  IF Cardinality(lt) = 1 /\ authorStr[Len(authorStr)] = ">"
           /\ name # <<>> /\ email # <<>>
        THEN [ok |-> TRUE, name |-> name, email |-> email]
        ELSE [ok |-> FALSE, name |-> <<>>, email |-> <<>>]

\* the value of an environment variable at its last lookup, any value when
\* the command never looked it up
EnvHolds(name) ==
    IF \E i \in 1..Len(env) : env[i].name = name
    THEN {env[Max({i \in 1..Len(env) : env[i].name = name})].value}
    ELSE EnvValues

\* the variable's text when it is set and not empty, else the placeholder
OrPlaceholder(v, placeholder) == IF v.set /\ v.val # <<>> THEN v.val ELSE placeholder

\* the authors the precedence allows for this invocation
SpecAuthors ==
    IF SpecOverride(flags.authorStr).ok
    THEN {[name |-> SpecOverride(flags.authorStr).name,
           email |-> SpecOverride(flags.authorStr).email]}
    ELSE {[name |-> OrPlaceholder(vn, <<"b", "g", "i", "t", " ", "u", "s", "e", "r">>),
           email |-> OrPlaceholder(ve, <<"u", "s", "e", "r", "@", "e", "x", "a", "m", "p",
                                         "l", "e", ".", "c", "o", "m">>)] :
             vn \in EnvHolds("GIT_AUTHOR_NAME"), ve \in EnvHolds("GIT_AUTHOR_EMAIL")}

\* C16: the author of a commit is the well-formed override when there is one,
\* else the author name and email of the environment, each replaced by its
\* placeholder when unset or empty; a malformed override is ignored.
C16_AuthorPrecedence ==
    \A i \in 1..Len(commits) :
        [name |-> commits[i].authorName, email |-> commits[i].authorEmail] \in SpecAuthors

\* the same for the command that takes the override
C16_Commit1Only == cmd = "commit1" => C16_AuthorPrecedence

\* the invocation created a commit, read it back and reported it
Committed == cmd \in CommitCommands /\ pc = "done" /\ Len(commits) = 1

\* the report of the commit, the last lines of the output: a heading, the
\* author, the subject or message, and for commit1 the staged paths
CommitReport ==
    LET n == IF cmd = "commit1"
             THEN 3 + (IF Len(stagedPaths) > 0 THEN Len(stagedPaths) ELSE 1)
             ELSE 3
    IN  SubSeq(stdout, Len(stdout) - n + 1, Len(stdout))

\* the text before the first line break
SpecFirstLine(s) ==
    IF \E i \in 1..Len(s) : s[i] = "\n"
    THEN SubSeq(s, 1, (CHOOSE i \in 1..Len(s) :
                          s[i] = "\n" /\ \A j \in 1..(i - 1) : s[j] # "\n") - 1)
    ELSE s

\* C17: after a commit of at least one staged path, the report names the
\* author name and email the commit was made with, and its subject is the
\* first line of the message.
C17_ReportRoundTrip ==
    (Committed /\ stagedPaths # <<>>) =>
        /\ CommitReport[2] = <<"Author", commits[1].authorName, commits[1].authorEmail>>
        /\ CommitReport[3][2] = SpecFirstLine(message)

\* the same for the command that prints a subject line
C17_Commit1Only == cmd = "commit1" => C17_ReportRoundTrip

\* the commit call succeeded and reading the commit back failed
ReadbackFailed ==
    /\ cmd \in CommitCommands
    /\ pc = "exit"
    /\ Len(commits) = 1
    /\ events[Len(events)].op = "CommitObject"

\* C18: a failed read-back after a successful commit call is reported as its
\* own condition, never with the report of a failed commit call.
C18_ReadbackFailureDistinct ==
    ReadbackFailed => stderr[Len(stderr)] # "error: failed to create commit"

\* the calls of the backend commit primitive
CommitCalls == {i \in 1..Len(events) : events[i].op = "Commit"}

\* C19: one invocation calls the commit primitive at most once, never in a
\* dry run, only once the staged list passed validation and a message was
\* resolved; a failed call is not repeated, and nothing but the commit call
\* changes the repository.
C19_CommitAtMostOnce ==
    cmd \in CommitCommands =>
        /\ Cardinality(CommitCalls) <= 1
        /\ Len(commits) <= Cardinality(CommitCalls)
        /\ \A i \in CommitCalls :
               /\ ~flags.dryRun
               /\ events[1] = Ev("Status", "ok")
               /\ stagedPaths # <<>> \/ flags.allowEmpty
               /\ events[i].arg # <<>>
               /\ \A j \in (i + 1)..Len(events) : events[j].op = "CommitObject"
               /\ \A j \in 1..(i - 1) : events[j].op # "CommitObject"

\* a commit call that failed and was not made again
C19_Witness ==
    /\ cmd \in CommitCommands
    /\ pc = "exit"
    /\ CommitCalls # {}
    /\ commits = <<>>

\* the diffs requested so far, in the order of the requests
DiffRequests == SelectSeq(events, LAMBDA e : e.op = "Diff")

\* diff collection ran and one "git diff" failed; it ran and none failed
DiffFailed ==
    cmd = "commit2" /\ pc = "exit" /\ events[Len(events)].op = "Diff"
DiffCollected ==
    cmd = "commit2" /\ DiffRequests # <<>> /\ ~DiffFailed

\* C20: diff collection asks for the diff of each path on its own and returns
\* the results joined in input order; when one fails it returns an error that
\* identifies that path, and no diff text.
C20_DiffPerPathOrFailingPath ==
    /\ DiffCollected =>
          /\ DiffRequests = [i \in 1..Len(stagedPaths) |-> Ev("Diff", stagedPaths[i])]
          /\ gen.diff = Join([i \in 1..Len(stagedPaths) |-> DiffOf(stagedPaths[i])], <<>>)
    /\ DiffFailed =>
          /\ DiffRequests = [i \in 1..Len(DiffRequests) |-> Ev("Diff", stagedPaths[i])]
          /\ gen.diff = <<>>
          /\ Contains(stderr[Len(stderr)][2], events[Len(events)].arg)

\* the same without the demand that the error names the path
C20_OrderAndNoPartialDiff ==
    /\ DiffCollected =>
          /\ DiffRequests = [i \in 1..Len(stagedPaths) |-> Ev("Diff", stagedPaths[i])]
          /\ gen.diff = Join([i \in 1..Len(stagedPaths) |-> DiffOf(stagedPaths[i])], <<>>)
    /\ DiffFailed =>
          /\ DiffRequests = [i \in 1..Len(DiffRequests) |-> Ev("Diff", stagedPaths[i])]
          /\ gen.diff = <<>>

----------------------------------------------------------------------------
(* Properties of the provider chain *)

\* the invocation has ended, with a result or with an error
Finished == pc \in {"done", "exit"}

\* a provider request that never gets an answer was issued
Unanswered == \E i \in 1..Len(responses) : responses[i].response.kind = "hang"

\* C21: every provider request is bounded by a timeout, so that a provider
\* that never responds is handled as a failed provider and the commit flow
\* eventually finishes.
C21_FlowFinishes == <>Finished

\* the same for the command that puts the request under a 15 second context
C21_Commit1Finishes == cmd = "commit1" ~> Finished

\* the steps taken on providers, in the order taken: credential lookups and
\* completion requests
IsLookup(e) == e.op = "LookupEnv" \/ (e.op = "Getenv" /\ e.arg = "OPENAI_API_KEY")
IsRequest(e) == e.op = "ChatCompletion"
ProviderSteps == SelectSeq(events, LAMBDA e : IsLookup(e) \/ IsRequest(e))

\* the place in the provider list of the provider a step is about
ProviderOf(e) ==
    CHOOSE i \in 1..Len(Providers) :
        IF IsLookup(e) THEN Providers[i].EnvName = e.arg ELSE Providers[i].Name = e.arg

\* the credential found for provider i, and the answer to its request
CredentialOf(i) == env[KeyOf(i)].value
SpecCallFailed(resp) ==
    \/ resp.kind \in {"error", "nochoices"}
    \/ resp.kind = "content" /\ resp.content = <<>>

\* the step on provider i left it skipped for a missing credential or failed
SkippedOrFailed(e, i) ==
    \/ IsLookup(e) /\ Looked(i) /\ ~CredentialOf(i).set
    \/ IsRequest(e) /\ Asked(i) /\ SpecCallFailed(AnswerOf(i))

\* C22: providers are attempted one at a time in list order: a request follows
\* the lookup of its own credential, provider i+1 is looked up only right
\* after provider i was skipped or failed, and nothing follows a call that
\* succeeded.
C22_StrictlySequential ==
    cmd \in CommitCommands =>
        /\ Len(responses) = Cardinality({k \in 1..Len(ProviderSteps) : IsRequest(ProviderSteps[k])})
        /\ \A k \in 1..Len(ProviderSteps) :
              LET e == ProviderSteps[k]
                  i == ProviderOf(e)
              IN  IF IsLookup(e)
                  THEN \/ k = 1 /\ i = 1
                       \/ /\ k > 1 /\ i > 1
                          /\ ProviderOf(ProviderSteps[k - 1]) = i - 1
                          /\ SkippedOrFailed(ProviderSteps[k - 1], i - 1)
                  ELSE /\ k > 1
                       /\ IsLookup(ProviderSteps[k - 1])
                       /\ ProviderOf(ProviderSteps[k - 1]) = i
                       /\ CredentialOf(i).set

\* the first provider's call failed, the second was then asked and succeeded
C22_Witness ==
    /\ cmd = "commit2" /\ pc = "after"
    /\ Len(ProviderSteps) = 4
    /\ Asked(1) /\ SpecCallFailed(AnswerOf(1))
    /\ Asked(2) /\ ~SpecCallFailed(AnswerOf(2))

\* a missing-credential warning for provider i was recorded
MissingCredentialWarned(i) ==
    IF cmd = "commit2"
    THEN /\ \E k \in 1..Len(gen.warnings) :
               gen.warnings[k] = [provider |-> Providers[i].Name, err |-> "API key not found"]
         /\ \E k \in 1..Len(stderr) :
               stderr[k] = <<"warning", Providers[i].Name, "API key not found">>
    ELSE /\ \E k \in 1..Len(gen.warnings) : gen.warnings[k] = "OPENAI_API_KEY not set"
         /\ \E k \in 1..Len(stdout) :
               stdout[k] = "OPENAI_API_KEY not set; falling back to basic generated message."

\* the flow has moved past provider i: on to the next provider, or past the
\* providers when i was the last one the command has
MovedPast(i) ==
    IF cmd = "commit2"
    THEN gen.idx > i /\ (i = Len(Providers) => pc \notin {"provider", "request"})
    ELSE pc \notin {"message", "request"} /\ message # <<>>

\* C23: a provider whose credential variable is absent is sent no request; a
\* missing-credential warning naming it is recorded and the flow moves on to
\* the next provider, or past the providers after the last.
C23_MissingCredentialSkips ==
    cmd \in CommitCommands =>
        \A i \in 1..Len(Providers) :
            (Looked(i) /\ ~CredentialOf(i).set)
            => /\ ~Asked(i)
               /\ MissingCredentialWarned(i)
               /\ MovedPast(i)

\* the first provider has no credential and the second was sent a request
C23_Witness ==
    /\ cmd = "commit2"
    /\ Looked(1) /\ ~CredentialOf(1).set
    /\ Asked(2)

\* a call-failed warning for provider i was recorded
CallFailedWarned(i) ==
    IF cmd = "commit2"
    THEN /\ \E k \in 1..Len(gen.warnings) :
               /\ gen.warnings[k].provider = Providers[i].Name
               /\ gen.warnings[k].err \in {"call failed", "no AI response content"}
         /\ \E k \in 1..Len(stderr) :
               stderr[k] \in {<<"warning", Providers[i].Name, "call failed">>,
                              <<"warning", Providers[i].Name, "no AI response content">>}
    ELSE \E k \in 1..Len(gen.warnings) : gen.warnings[k] = "AI generation failed"

\* the message in use does not come from provider i: it is a later
\* provider's text, or the heuristic message
MessageFromElsewhere(i) ==
    IF cmd = "commit2"
    THEN /\ pc = "after" => gen.generatedMessage = <<>> \/ gen.idx > i
         /\ pc \in {"dryrun", "commit", "readback", "done"}
            => \E j \in (i + 1)..Len(Providers) :
                  Succeeded(j) /\ message = TrimSpace(AnswerOf(j).content)
    ELSE message \in {basicHeuristicMessage(stagedPaths, o) : o \in Orders(ExtKeys(stagedPaths))}

\* C24: a provider call that ends in a network error, without choices or
\* with empty content is a failure of that provider: a call-failed warning is
\* recorded, the flow moves on, and the response never becomes the message.
C24_FailedCallIsFailure ==
    cmd \in CommitCommands =>
        \A i \in 1..Len(Providers) :
            (Asked(i) /\ SpecCallFailed(AnswerOf(i)))
            => /\ CallFailedWarned(i)
               /\ MovedPast(i)
               /\ MessageFromElsewhere(i)

\* one provider failed with a network error, the other answered without
\* choices, and the providers are exhausted
C24_Witness ==
    /\ cmd = "commit2" /\ pc = "exit"
    /\ Asked(1) /\ AnswerOf(1).kind = "error"
    /\ Asked(2) /\ AnswerOf(2).kind = "nochoices"

----------------------------------------------------------------------------
(* Properties of validation and of the message in use *)

\* the status query succeeded and found nothing staged, and allow-empty is
\* not set
NothingStaged ==
    /\ cmd \in CommitCommands
    /\ events # <<>> /\ events[1] = Ev("Status", "ok")
    /\ stagedPaths = <<>>
    /\ ~flags.allowEmpty

\* C25: with nothing staged and allow-empty not set the invocation ends in a
\* fatal error: a non-zero outcome, an error message, and no commit.
C25_NothingStagedIsFatal ==
    NothingStaged =>
        /\ pc = "exit"
        /\ exitCode # 0
        /\ stderr # <<>>
        /\ commits = <<>>

\* the same for the command with the allow-empty flag, whose message names
\* both remedies
C25_Commit1Only ==
    (NothingStaged /\ cmd = "commit1") =>
        /\ pc = "exit"
        /\ exitCode = 1
        /\ stderr = <<"error: no staged changes to commit (use 'bgit add' or --allow-empty)">>
        /\ commits = <<>>

\* m is c without its leading and trailing white space
TrimmedOf(m, c) ==
    /\ \E a, b \in 0..Len(c) :
          /\ a + b <= Len(c)
          /\ m = SubSeq(c, a + 1, Len(c) - b)
          /\ \A k \in 1..a : c[k] \in {" ", "\t", "\n", "\r"}
          /\ \A k \in (Len(c) - b + 1)..Len(c) : c[k] \in {" ", "\t", "\n", "\r"}
    /\ m # <<>> => m[1] \notin {" ", "\t", "\n", "\r"}
                   /\ m[Len(m)] \notin {" ", "\t", "\n", "\r"}

\* synthesis has ended with the text of a provider as the message in use
SynthesisDone ==
    /\ flags.message = <<>>
    /\ \E i \in 1..Len(Providers) : Succeeded(i)
    /\ \/ cmd = "commit2" /\ pc \in {"dryrun", "commit", "readback", "done"}
       \/ cmd = "commit1" /\ pc \in {"commit", "readback", "done"}

\* C26: the text of a successful provider call loses its leading and trailing
\* white space before it becomes the message, and synthesis ends as done only
\* with a message that is not empty after that.
C26_TrimmedAndNonEmpty ==
    /\ (cmd = "commit2" /\ pc = "after")
       => \A i \in 1..Len(Providers) :
             Succeeded(i) => TrimmedOf(gen.generatedMessage, AnswerOf(i).content)
    /\ SynthesisDone
       => /\ message # <<>>
          /\ \A i \in 1..Len(Providers) :
                Succeeded(i) => TrimmedOf(message, AnswerOf(i).content)

\* a response with white space on both sides became the message
C26_Witness ==
    /\ SynthesisDone /\ cmd = "commit2" /\ pc = "commit"
    /\ Succeeded(1) /\ AnswerOf(1).content = <<" ", "f", "i", "x", "\n">>
    /\ message = <<"f", "i", "x">>

\* provider i answered with white space only
WhitespaceAnswer(i) ==
    /\ Asked(i)
    /\ AnswerOf(i).kind = "content"
    /\ AnswerOf(i).content # <<>>
    /\ \A k \in 1..Len(AnswerOf(i).content) :
          AnswerOf(i).content[k] \in {" ", "\t", "\n", "\r"}

\* C27: a response of white space only never ends the chain with an empty
\* message: the next provider is tried or the flow falls back, and the
\* invocation does not abort while later providers are untried.
C27_WhitespaceDoesNotEndChain ==
    \A i \in 1..Len(Providers) :
        (cmd = "commit2" /\ WhitespaceAnswer(i))
        => /\ (pc = "after" /\ gen.generatedMessage = <<>>)
              => \A j \in (i + 1)..Len(Providers) : Looked(j)
           /\ (pc = "exit" /\ "Commit" \notin Ops)
              => \A j \in (i + 1)..Len(Providers) : Looked(j)

\* the status query of the commit command succeeded
StagedListed ==
    cmd \in CommitCommands /\ events # <<>> /\ events[1] = Ev("Status", "ok")

\* the working tree has entries, all of them untracked files
OnlyUntracked ==
    /\ DOMAIN status # {}
    /\ \A p \in DOMAIN status : status[p].Staging = "Untracked"

\* C28: the staged list holds only paths with a change recorded in the index;
\* a tree whose only entries are untracked files has nothing staged, and a
\* commit without allow-empty is rejected there.
C28_StagedMeansIndexChange ==
    StagedListed =>
        /\ \A i \in 1..Len(stagedPaths) :
              status[stagedPaths[i]].Staging \notin {"Unmodified", "Untracked"}
        /\ (OnlyUntracked /\ ~flags.allowEmpty)
           => /\ stagedPaths = <<>>
              /\ pc \in {"exit", "done"}
              /\ Ops = {"Status"}
              /\ commits = <<>>

\* the caller supplied a message
MessageSupplied == cmd \in CommitCommands /\ flags.message # <<>>

\* the dry-run preview was printed, and the message line it shows
PreviewShown ==
    cmd \in CommitCommands /\ flags.dryRun /\ pc = "done" /\ "Commit" \notin Ops
    /\ (cmd = "commit2" => stagedPaths # <<>>)
PreviewMessage ==
    IF cmd = "commit1" THEN stdout[2][2] ELSE stdout[Len(stdout)][2]

\* with a supplied message: no diff is collected, no credential looked up, no
\* provider called, and the commit call gets the supplied message
SuppliedMessageFrame ==
    /\ Ops \cap {"Diff", "LookupEnv", "ChatCompletion"} = {}
    /\ \A i \in 1..Len(events) : ~IsLookup(events[i])
    /\ responses = <<>>
    /\ message = flags.message
    /\ \A i \in CommitCalls : events[i].arg = flags.message
    /\ \A i \in 1..Len(commits) : commits[i].message = flags.message

\* C29 as stated: with a supplied message nothing is synthesised, and the
\* message given to the commit call or shown in the dry-run preview is exactly
\* the supplied message.
C29_SuppliedMessageShownExactly ==
    MessageSupplied =>
        /\ SuppliedMessageFrame
        /\ PreviewShown => PreviewMessage = flags.message

\* C29 amended: with a supplied message nothing is synthesised and the commit
\* call gets exactly the supplied message; the dry-run preview shows the
\* supplied message, or in the command of part_003 its first line.
C29_SuppliedMessageKept ==
    MessageSupplied =>
        /\ SuppliedMessageFrame
        /\ PreviewShown =>
              PreviewMessage = (IF cmd = "commit1" THEN SpecFirstLine(flags.message)
                                ELSE flags.message)

\* a supplied message of two lines, AI not disabled, previewed in a dry run
\* by its first line
C29_Witness ==
    /\ MessageSupplied /\ flags.message = <<"a", "\n", "b">>
    /\ ~flags.noAI
    /\ PreviewShown /\ cmd = "commit1"
    /\ PreviewMessage = <<"a">>

\* AI generation is disabled and no message was supplied
NoAINoMessage == cmd \in CommitCommands /\ flags.noAI /\ flags.message = <<>>

\* nothing is generated or substituted, nothing previewed, nothing committed
NothingResolved ==
    /\ message = <<>>
    /\ Ops \cap {"Diff", "LookupEnv", "ChatCompletion", "Commit", "CommitObject"} = {}
    /\ \A i \in 1..Len(events) : ~IsLookup(events[i])
    /\ responses = <<>>
    /\ commits = <<>>
    /\ pc \notin {"dryrun", "commit", "readback"}

====
